---------------------------- MODULE Spec2Model ----------------------------
(***************************************************************************)
(* Geo Data Viewer: the extension host's event handlers (src/extension.ts) *)
(* and the webview page script (web/scripts/map.view.js).                  *)
(*                                                                         *)
(* Spec     - the extension host: the view.map command and the save,       *)
(*            document-change and configuration-change listeners, acting   *)
(*            on the view registry (viewManager) and the MapView objects.  *)
(* PageSpec - one webview page: its DOMContentLoaded and message           *)
(*            listeners and its button handlers, posting to the host.      *)
(***************************************************************************)
EXTENDS Integers, Sequences, FiniteSets, TLC

VARIABLES
  activeTextEditor,  \* window.activeTextEditor
  views,             \* the MapView objects constructed so far, in order
  registry,          \* viewManager: preview Uri -> index of a view in views
  event,             \* the handler invocation that ran last
  calls,             \* the calls that invocation made on its collaborators
  result,            \* what that invocation returned
  posted,            \* the messages that invocation posted to webview panels
  refreshed,         \* the views a save has refreshed so far
  hasVsCodeApi,      \* page: acquireVsCodeApi is defined (inside VS Code)
  domLoaded,         \* page: DOMContentLoaded has fired
  vscode,            \* page: the vscode global
  elements,          \* page: title, message, ... are bound to their elements
  dataUrl,           \* page: the dataUrl global
  dataFileName,      \* page: the dataFileName global, shown in the title
  webviewState,      \* page: what vscode.setState has stored
  messageText,       \* page: message.innerText
  outbox,            \* page: the messages posted to the host, in order
  handler,           \* page: the handler that ran last
  uncaught           \* page: that handler threw out of itself

extVars == <<activeTextEditor, views, registry, event, calls, result, posted,
             refreshed>>
pageVars == <<hasVsCodeApi, domLoaded, vscode, elements, dataUrl, dataFileName,
              webviewState, messageText, outbox, handler, uncaught>>
vars == <<activeTextEditor, views, registry, event, calls, result, posted,
          refreshed, hasVsCodeApi, domLoaded, vscode, elements, dataUrl,
          dataFileName, webviewState, messageText, outbox, handler, uncaught>>

---------------------------------------------------------------------------
(* Bounds *)

\* MapView objects the command may construct in one run
MaxViews == 2
\* messages a page may post in one run
MaxOutbox == 3

---------------------------------------------------------------------------
(* Values *)

ViewColumnOne == 1

Undefined == [kind |-> "undefined"]

MkUri(scheme, path) == [kind |-> "Uri", scheme |-> scheme, path |-> path]

\* "/a.geojson"
PathGeo == <<"/", "a", ".", "g", "e", "o", "j", "s", "o", "n">>
\* "/b.json"
PathJson == <<"/", "b", ".", "j", "s", "o", "n">>
\* "/c.GEOJSON"
PathUpper == <<"/", "c", ".", "G", "E", "O", "J", "S", "O", "N">>
\* "/d.geojson/e"
PathDir == <<"/", "d", ".", "g", "e", "o", "j", "s", "o", "n", "/", "e">>

\* the text documents of the workspace
Documents ==
  { MkUri("file", PathGeo), MkUri("untitled", PathGeo), MkUri("file", PathJson),
    MkUri("file", PathUpper), MkUri("file", PathDir) }

\* what the view.map command can be invoked with
CommandArgs == Documents \cup {Undefined, [kind |-> "string"]}

\* viewColumn 0 stands for an editor without a view column
Editors ==
  {Undefined} \cup
  [kind : {"editor"}, document : Documents, viewColumn : {ViewColumnOne}] \cup
  {[kind |-> "editor", document |-> MkUri("file", PathJson), viewColumn |-> 0]}

---------------------------------------------------------------------------
(* Pure functions *)

\* resource instanceof Uri
InstanceOfUri(x) == x.kind = "Uri"

\* uri.with({scheme: scheme})
WithScheme(uri, scheme) == [uri EXCEPT !.scheme = scheme]

RECURSIVE StripTrailingSlashes(_)
StripTrailingSlashes(p) ==
  IF Len(p) > 1 /\ p[Len(p)] = "/"
    THEN StripTrailingSlashes(SubSeq(p, 1, Len(p) - 1))
    ELSE p

\* the index of the last "/" among the first n characters of p, 0 if none
RECURSIVE LastSlash(_, _)
LastSlash(p, n) ==
  IF n = 0 THEN 0
  ELSE IF p[n] = "/" THEN n
  ELSE LastSlash(p, n - 1)

\* path.basename(p)
Basename(p) ==
  LET q == StripTrailingSlashes(p)
  IN  SubSeq(q, LastSlash(q, Len(q)) + 1, Len(q))

\* s.endsWith(suffix)
EndsWith(s, suffix) ==
  /\ Len(suffix) <= Len(s)
  /\ SubSeq(s, Len(s) - Len(suffix) + 1, Len(s)) = suffix

GeoJsonSuffix == <<".", "g", "e", "o", "j", "s", "o", "n">>

\* s.includes(part)
Includes(s, part) ==
  \E i \in 1..Len(s) :
    /\ i + Len(part) - 1 <= Len(s)
    /\ SubSeq(s, i, i + Len(part) - 1) = part

\* isGeoDataFile testing the whole path for the extension, not the end of the base name
isGeoDataFile_Includes(document) == Includes(document.path, GeoJsonSuffix)

isGeoDataFile(document) == EndsWith(Basename(document.path), GeoJsonSuffix)

getViewColumn ==
  IF activeTextEditor.kind = "editor" /\ activeTextEditor.viewColumn # 0
    THEN activeTextEditor.viewColumn + 1
    ELSE ViewColumnOne

---------------------------------------------------------------------------
(* The view registry and the views *)

EmptyRegistry == [k \in {} |-> 0]

\* new MapView(viewType, extensionPath, resource, viewColumn, viewTemplate)
NewMapView(viewType, resource, viewColumn) ==
  [viewType |-> viewType, resource |-> resource, viewColumn |-> viewColumn]

\* the Uri a view is registered under
PreviewUri(view) == WithScheme(view.resource, "map")

\* viewManager.add(view): the view, of index id, is registered under its Uri
ViewManagerAdd(reg, id, view) ==
  [k \in DOMAIN reg \cup {PreviewUri(view)} |->
     IF k = PreviewUri(view) THEN id ELSE reg[k]]

\* viewManager.find(uri): the index of the view, 0 when there is none
ViewManagerFind(reg, uri) == IF uri \in DOMAIN reg THEN reg[uri] ELSE 0

\* viewManager.configure(): the registry keeps its views
ViewManagerConfigure(reg) == reg

\* mapView.refresh(): a refresh message for the view's file goes to its panel
MapViewRefresh(id) ==
  [view |-> id, command |-> "refresh", uri |-> views[id].resource]

Call(target, op, arg) == [target |-> target, op |-> op, arg |-> arg]

\* a view, as the argument or the receiver of a call
ViewRef(id) == [kind |-> "view", id |-> id]

\* a string, as the argument of a call
Str(s) == [kind |-> "string", value |-> s]

---------------------------------------------------------------------------
(* The extension host *)

\* the save listener looking the view up under the document's own Uri
OnDidSaveTextDocument_NoSchemeSwap(document) ==
  /\ event' = [name |-> "save", arg |-> document, changes |-> 0]
  /\ result' = Undefined
  /\ UNCHANGED <<activeTextEditor, views, registry>>
  /\ IF isGeoDataFile(document)
       THEN LET mapView == ViewManagerFind(registry, document)
            IN  IF mapView # 0
                  THEN /\ calls' = << Call("viewManager", "find", document),
                                      Call("mapView", "refresh", ViewRef(mapView)) >>
                       /\ posted' = << MapViewRefresh(mapView) >>
                       /\ refreshed' = refreshed \cup {mapView}
                  ELSE /\ calls' = << Call("viewManager", "find", document) >>
                       /\ posted' = << >>
                       /\ UNCHANGED refreshed
       ELSE /\ calls' = << >>
            /\ posted' = << >>
            /\ UNCHANGED refreshed

\* workspace.onDidSaveTextDocument listener
OnDidSaveTextDocument(document) ==
  /\ event' = [name |-> "save", arg |-> document, changes |-> 0]
  /\ result' = Undefined
  /\ UNCHANGED <<activeTextEditor, views, registry>>
  /\ IF isGeoDataFile(document)
       THEN LET uri == WithScheme(document, "map")
                mapView == ViewManagerFind(registry, uri)
            IN  IF mapView # 0
                  THEN /\ calls' = << Call("viewManager", "find", uri),
                                      Call("mapView", "refresh", ViewRef(mapView)) >>
                       /\ posted' = << MapViewRefresh(mapView) >>
                       /\ refreshed' = refreshed \cup {mapView}
                  ELSE /\ calls' = << Call("viewManager", "find", uri) >>
                       /\ posted' = << >>
                       /\ UNCHANGED refreshed
       ELSE /\ calls' = << >>
            /\ posted' = << >>
            /\ UNCHANGED refreshed

\* the change listener with its refresh enabled
OnDidChangeTextDocument_Refresh(document, contentChanges) ==
  /\ event' = [name |-> "change", arg |-> document, changes |-> contentChanges]
  /\ result' = Undefined
  /\ UNCHANGED <<activeTextEditor, views, registry, refreshed>>
  /\ IF isGeoDataFile(document)
       THEN LET uri == WithScheme(document, "map")
                mapView == ViewManagerFind(registry, uri)
            IN  IF mapView # 0 /\ contentChanges > 0
                  THEN /\ calls' = << Call("viewManager", "find", uri),
                                      Call("mapView", "refresh", ViewRef(mapView)) >>
                       /\ posted' = << MapViewRefresh(mapView) >>
                  ELSE /\ calls' = << Call("viewManager", "find", uri) >>
                       /\ posted' = << >>
       ELSE /\ calls' = << >>
            /\ posted' = << >>

\* workspace.onDidChangeTextDocument listener
OnDidChangeTextDocument(document, contentChanges) ==
  /\ event' = [name |-> "change", arg |-> document, changes |-> contentChanges]
  /\ result' = Undefined
  /\ posted' = << >>
  /\ UNCHANGED <<activeTextEditor, views, registry, refreshed>>
  /\ IF isGeoDataFile(document)
       THEN calls' = << Call("viewManager", "find", WithScheme(document, "map")) >>
       ELSE calls' = << >>

\* the configuration listener forwarding only when a view is open
OnDidChangeConfiguration_OnlyWithViews ==
  /\ event' = [name |-> "configuration", arg |-> Undefined, changes |-> 0]
  /\ result' = Undefined
  /\ posted' = << >>
  /\ IF views # << >>
       THEN calls' = << Call("viewManager", "configure", Undefined) >>
       ELSE calls' = << >>
  /\ registry' = ViewManagerConfigure(registry)
  /\ UNCHANGED <<activeTextEditor, views, refreshed>>

\* the configuration listener dropping the registered views
OnDidChangeConfiguration_Reset ==
  /\ event' = [name |-> "configuration", arg |-> Undefined, changes |-> 0]
  /\ result' = Undefined
  /\ posted' = << >>
  /\ calls' = << Call("viewManager", "configure", Undefined) >>
  /\ registry' = EmptyRegistry
  /\ UNCHANGED <<activeTextEditor, views, refreshed>>

\* workspace.onDidChangeConfiguration listener
OnDidChangeConfiguration ==
  /\ event' = [name |-> "configuration", arg |-> Undefined, changes |-> 0]
  /\ result' = Undefined
  /\ posted' = << >>
  /\ calls' = << Call("viewManager", "configure", Undefined) >>
  /\ registry' = ViewManagerConfigure(registry)
  /\ UNCHANGED <<activeTextEditor, views, refreshed>>

\* the command returning without telling the user
ViewMapNoEditor_NoMessage(uri) ==
  /\ ~InstanceOfUri(uri)
  /\ activeTextEditor.kind # "editor"
  /\ event' = [name |-> "view.map", arg |-> uri, changes |-> 0]
  /\ calls' = << >>
  /\ result' = Undefined
  /\ posted' = << >>
  /\ UNCHANGED <<activeTextEditor, views, registry, refreshed>>

\* the view.map command, where no view is made
ViewMapNoEditor(uri) ==
  /\ ~InstanceOfUri(uri)
  /\ activeTextEditor.kind # "editor"
  /\ event' = [name |-> "view.map", arg |-> uri, changes |-> 0]
  /\ calls' = << Call("window", "showInformationMessage",
                      Str("Open a geo data file to view map.")) >>
  /\ result' = Undefined
  /\ posted' = << >>
  /\ UNCHANGED <<activeTextEditor, views, registry, refreshed>>

\* the command taking the active editor's document whenever there is one
ViewMapCreate_PreferEditor(uri) ==
  /\ InstanceOfUri(uri) \/ activeTextEditor.kind = "editor"
  /\ Len(views) < MaxViews
  /\ LET resource == IF activeTextEditor.kind = "editor"
                       THEN activeTextEditor.document
                       ELSE uri
         mapView == NewMapView("view.map", resource, getViewColumn)
         id == Len(views) + 1
     IN  /\ views' = Append(views, mapView)
         /\ registry' = ViewManagerAdd(registry, id, mapView)
         /\ calls' = << Call("MapView", "new", resource),
                        Call("viewManager", "add", ViewRef(id)) >>
         /\ result' = [kind |-> "webview", view |-> id]
  /\ event' = [name |-> "view.map", arg |-> uri, changes |-> 0]
  /\ posted' = << >>
  /\ UNCHANGED <<activeTextEditor, refreshed>>

\* the view.map command, where a view is made
ViewMapCreate(uri) ==
  /\ InstanceOfUri(uri) \/ activeTextEditor.kind = "editor"
  /\ Len(views) < MaxViews
  /\ LET resource == IF InstanceOfUri(uri) THEN uri
                     ELSE activeTextEditor.document
         mapView == NewMapView("view.map", resource, getViewColumn)
         id == Len(views) + 1
     IN  /\ views' = Append(views, mapView)
         /\ registry' = ViewManagerAdd(registry, id, mapView)
         /\ calls' = << Call("MapView", "new", resource),
                        Call("viewManager", "add", ViewRef(id)) >>
         /\ result' = [kind |-> "webview", view |-> id]
  /\ event' = [name |-> "view.map", arg |-> uri, changes |-> 0]
  /\ posted' = << >>
  /\ UNCHANGED <<activeTextEditor, refreshed>>

\* the view.map command handler
ViewMapCommand(uri) == ViewMapNoEditor(uri) \/ ViewMapCreate(uri)

\* the user moves to another editor, or closes the last one
ChangeActiveTextEditor(editor) ==
  /\ editor # activeTextEditor
  /\ activeTextEditor' = editor
  /\ event' = [name |-> "editor", arg |-> Undefined, changes |-> 0]
  /\ calls' = << >>
  /\ result' = Undefined
  /\ posted' = << >>
  /\ UNCHANGED <<views, registry, refreshed>>

ExtInit ==
  /\ activeTextEditor = Undefined
  /\ views = << >>
  /\ registry = EmptyRegistry
  /\ event = [name |-> "activate", arg |-> Undefined, changes |-> 0]
  /\ calls = << >>
  /\ result = Undefined
  /\ posted = << >>
  /\ refreshed = {}

---------------------------------------------------------------------------
(* The webview page *)

EnterKey == 13

\* the keys a key event can carry: enter, and the letter a
KeyCodes == {EnterKey, 65}

\* what the data url input can hold
InputValues == {"https://host/x.geojson"}

\* the messages the host can send to the page
HostMessages ==
  [command : {"refresh"}, uri : {"file:///a.geojson"}, fileName : {"a.geojson"},
   message : {""}] \cup
  [command : {"showMessage", "other"}, uri : {""}, fileName : {""},
   message : {"Loading..."}]

PageIdle ==
  /\ domLoaded = FALSE
  /\ vscode = "undefined"
  /\ elements = FALSE
  /\ dataUrl = "undefined"
  /\ dataFileName = "undefined"
  /\ webviewState = "undefined"
  /\ messageText = ""
  /\ outbox = << >>
  /\ handler = "none"
  /\ uncaught = FALSE

pageData == <<dataUrl, dataFileName, webviewState, messageText>>

\* a handler that ends in an uncaught TypeError, having changed nothing
Throws == uncaught' = TRUE /\ UNCHANGED <<pageData, outbox>>

\* vscode.postMessage(msg)
PostMessage(msg) ==
  IF vscode = "undefined"
    THEN Throws
    ELSE /\ Len(outbox) < MaxOutbox
         /\ outbox' = Append(outbox, msg)
         /\ uncaught' = FALSE
         /\ UNCHANGED pageData

LoadView(viewName, uri) ==
  [command |-> "loadView", viewName |-> viewName, uri |-> uri]

\* the listener acquiring the api without asking for the data
DOMContentLoaded_NoRefresh ==
  /\ ~domLoaded
  /\ domLoaded' = TRUE
  /\ handler' = "DOMContentLoaded"
  /\ elements' = TRUE
  /\ IF hasVsCodeApi
       THEN vscode' = "api" /\ UNCHANGED outbox
       ELSE UNCHANGED <<vscode, outbox>>
  /\ uncaught' = FALSE
  /\ UNCHANGED <<hasVsCodeApi, pageData>>

\* document 'DOMContentLoaded' listener
DOMContentLoaded ==
  /\ ~domLoaded
  /\ domLoaded' = TRUE
  /\ handler' = "DOMContentLoaded"
  /\ elements' = TRUE
  /\ IF hasVsCodeApi
       THEN /\ vscode' = "api"
            /\ outbox' = Append(outbox, [command |-> "refresh"])
       ELSE UNCHANGED <<vscode, outbox>>
  /\ uncaught' = FALSE
  /\ UNCHANGED <<hasVsCodeApi, pageData>>

\* showMessage(text), as the last statement of a handler
showMessage(text) ==
  IF elements
    THEN messageText' = text /\ uncaught' = FALSE
    ELSE UNCHANGED messageText /\ uncaught' = TRUE

\* window 'message' listener
OnMessage(data) ==
  /\ handler' = "message"
  /\ UNCHANGED <<hasVsCodeApi, domLoaded, vscode, elements, outbox>>
  /\ CASE data.command = "showMessage" ->
            /\ showMessage(data.message)
            /\ UNCHANGED <<dataUrl, dataFileName, webviewState>>
       [] data.command = "refresh" ->
            IF vscode = "api"
              THEN /\ webviewState' = data.uri
                   /\ dataFileName' = data.fileName
                   /\ dataUrl' = data.uri
                   /\ showMessage("")
              ELSE /\ showMessage("TypeError")
                   /\ UNCHANGED <<dataUrl, dataFileName, webviewState>>
       [] OTHER -> uncaught' = FALSE /\ UNCHANGED pageData

\* viewMapSource()
viewMapSource ==
  /\ handler' = "viewMapSource"
  /\ PostMessage(LoadView("vscode.open", dataUrl))
  /\ UNCHANGED <<hasVsCodeApi, domLoaded, vscode, elements>>

\* loadMapViewFromUrl(e)
loadMapViewFromUrl(keyCode, value) ==
  /\ handler' = "loadMapViewFromUrl"
  /\ IF keyCode = EnterKey
       THEN IF elements THEN PostMessage(LoadView("map.view", value)) ELSE Throws
       ELSE uncaught' = FALSE /\ UNCHANGED <<pageData, outbox>>
  /\ UNCHANGED <<hasVsCodeApi, domLoaded, vscode, elements>>

\* showHelp()
showHelp ==
  /\ handler' = "showHelp"
  /\ PostMessage(LoadView("vscode.open",
                          "https://github.com/RandomFractals/geo-data-viewer#usage"))
  /\ UNCHANGED <<hasVsCodeApi, domLoaded, vscode, elements>>

\* buyCoffee()
buyCoffee ==
  /\ handler' = "buyCoffee"
  /\ PostMessage(LoadView("vscode.open", "https://ko-fi.com/datapixy"))
  /\ UNCHANGED <<hasVsCodeApi, domLoaded, vscode, elements>>

Init == ExtInit /\ hasVsCodeApi = FALSE /\ PageIdle

Save == \E document \in Documents :
          OnDidSaveTextDocument(document) /\ UNCHANGED pageVars

Change == \E document \in Documents, n \in {0, 1} :
            OnDidChangeTextDocument(document, n) /\ UNCHANGED pageVars

Configuration == OnDidChangeConfiguration /\ UNCHANGED pageVars

Command == \E uri \in CommandArgs : ViewMapCommand(uri) /\ UNCHANGED pageVars

Editor == \E editor \in Editors :
            ChangeActiveTextEditor(editor) /\ UNCHANGED pageVars

Next == Save \/ Change \/ Configuration \/ Command \/ Editor

Spec == Init /\ [][Next]_vars

PageInit == ExtInit /\ hasVsCodeApi \in BOOLEAN /\ PageIdle

Loaded == DOMContentLoaded /\ UNCHANGED extVars

Message == \E data \in HostMessages : OnMessage(data) /\ UNCHANGED extVars

ViewSource == viewMapSource /\ UNCHANGED extVars

KeyUp == \E keyCode \in KeyCodes, value \in InputValues :
           loadMapViewFromUrl(keyCode, value) /\ UNCHANGED extVars

Help == showHelp /\ UNCHANGED extVars

Coffee == buyCoffee /\ UNCHANGED extVars

PageNext == Loaded \/ Message \/ ViewSource \/ KeyUp \/ Help \/ Coffee

PageSpec == PageInit /\ [][PageNext]_vars

---------------------------------------------------------------------------
(* Properties *)

IsRefreshCall(c) == c.op = "refresh"
IsFindCall(c) == c.op = "find"
RefreshCalls == SelectSeq(calls, IsRefreshCall)

\* the event ran the save listener on a geo data document
SavedGeo == event.name = "save" /\ isGeoDataFile(event.arg)

\* C1: a save of a geo data document refreshes exactly the view registered
\* under the document's Uri with scheme 'map', once, and a refresh message
\* for that file goes to its panel; with no view registered there, no view is
\* refreshed and nothing is posted.
C1_SaveRefreshesRegisteredView ==
  SavedGeo =>
    LET uri == WithScheme(event.arg, "map")
    IN  IF uri \in DOMAIN registry
          THEN /\ RefreshCalls = << Call("mapView", "refresh", ViewRef(registry[uri])) >>
               /\ Len(posted) = 1
               /\ posted[1].view = registry[uri]
               /\ posted[1].command = "refresh"
               /\ posted[1].uri.path = event.arg.path
          ELSE RefreshCalls = << >> /\ posted = << >>

\* C1 witness: an untitled geo data document is saved while a view made for
\* the file of the same path is registered, and that view is refreshed.
C1_Witness ==
  /\ SavedGeo
  /\ event.arg.scheme = "untitled"
  /\ WithScheme(event.arg, "map") \in DOMAIN registry
  /\ Len(posted) = 1
  /\ posted[1].uri.scheme = "file"

\* C2: there is at most one map view per Uri: no two of the views the
\* command has made are for the same resource.
C2_OneViewPerUri ==
  \A i, j \in 1..Len(views) : views[i].resource = views[j].resource => i = j

\* C3: a configuration-change event makes exactly one call, configure() on
\* the registry, whatever views are open, and no add, find or refresh.
C3_ConfigurationForwarded ==
  event.name = "configuration" =>
    calls = << Call("viewManager", "configure", Undefined) >>

\* C3 witness: the configuration changes while no view is open.
C3_Witness ==
  /\ event.name = "configuration"
  /\ views = << >>
  /\ Len(calls) = 1

\* C4: the registry is used through add, find and configure only; it changes
\* only when the command adds the one view it has just made; save, change and
\* configuration events leave every registered view found under its Uri, and
\* no step removes a Uri from it.
C4_RegistryChangesOnlyByCommand ==
  [][ /\ \A i \in 1..Len(calls') :
           calls'[i].target = "viewManager" =>
             calls'[i].op \in {"add", "find", "configure"}
      /\ registry' # registry =>
           /\ event'.name = "view.map"
           /\ Len(views') = Len(views) + 1
           /\ DOMAIN registry' = DOMAIN registry \cup {PreviewUri(views'[Len(views')])}
           /\ registry'[PreviewUri(views'[Len(views')])] = Len(views')
      /\ event'.name \in {"save", "change", "configuration"} =>
           /\ views' = views
           /\ DOMAIN registry' = DOMAIN registry
           /\ \A k \in DOMAIN registry :
                ViewManagerFind(registry', k) = ViewManagerFind(registry, k)
      /\ DOMAIN registry \subseteq DOMAIN registry'
    ]_vars

\* C4 witness: a configuration change happens while a view is registered,
\* and the view is still found.
C4_Witness ==
  /\ event.name = "configuration"
  /\ views # << >>
  /\ ViewManagerFind(registry, PreviewUri(views[1])) # 0

\* the step runs the command with no Uri and no active editor
CommandWithNothing ==
  /\ event'.name = "view.map"
  /\ ~InstanceOfUri(event'.arg)
  /\ activeTextEditor.kind # "editor"

\* C5: the command invoked with no Uri and no active editor shows 'Open a
\* geo data file to view map.', returns nothing, makes no view and leaves the
\* registry as it is.
C5_NoEditorNoView ==
  [][ CommandWithNothing =>
        /\ calls' = << Call("window", "showInformationMessage",
                            Str("Open a geo data file to view map.")) >>
        /\ result' = Undefined
        /\ views' = views
        /\ registry' = registry
    ]_vars

\* C5 witness: the command has run with no argument and no active editor
\* while a view was open.
C5_Witness ==
  /\ event.name = "view.map"
  /\ event.arg = Undefined
  /\ activeTextEditor = Undefined
  /\ result = Undefined
  /\ views # << >>

\* the step runs the command with a Uri or an active editor
CommandWithResource ==
  /\ event'.name = "view.map"
  /\ InstanceOfUri(event'.arg) \/ activeTextEditor.kind = "editor"

\* C6: the view the command makes is for its argument when that is a Uri,
\* whichever editor is active, and for the active editor's document
\* otherwise; one view is made, added to the registry once, and its webview
\* returned.
C6_ResourceOfNewView ==
  [][ CommandWithResource =>
        LET id == Len(views) + 1
            resource == IF InstanceOfUri(event'.arg) THEN event'.arg
                        ELSE activeTextEditor.document
        IN  /\ Len(views') = id
            /\ SubSeq(views', 1, Len(views)) = views
            /\ views'[id].resource = resource
            /\ calls' = << Call("MapView", "new", resource),
                           Call("viewManager", "add", ViewRef(id)) >>
            /\ ViewManagerFind(registry', WithScheme(resource, "map")) = id
            /\ result' = [kind |-> "webview", view |-> id]
    ]_vars

\* C6 witness: the command has run with a Uri while the active editor shows
\* another document, and the view is for the Uri.
C6_Witness ==
  /\ event.name = "view.map"
  /\ InstanceOfUri(event.arg)
  /\ activeTextEditor.kind = "editor"
  /\ activeTextEditor.document # event.arg
  /\ result = [kind |-> "webview", view |-> Len(views)]
  /\ views[Len(views)].resource = event.arg

\* the event ran the change listener, with content changes, on a geo data
\* document whose view is registered
ChangedGeoWithView ==
  /\ event.name = "change"
  /\ event.changes > 0
  /\ isGeoDataFile(event.arg)
  /\ WithScheme(event.arg, "map") \in DOMAIN registry

C8_OtherFilesNeverRefreshed ==
  /\ event.name = "save" /\ ~EndsWith(Basename(event.arg.path), GeoJsonSuffix) =>
       calls = << >> /\ posted = << >>
  /\ \A id \in refreshed :
       EndsWith(Basename(views[id].resource.path), GeoJsonSuffix)

\* C8 witness: a document in a directory named like a geo data file is
\* saved while a view is registered for it.
C8_Witness ==
  /\ event.name = "save"
  /\ event.arg.path = PathDir
  /\ WithScheme(event.arg, "map") \in DOMAIN registry

IsRefreshMessage(m) == m.command = "refresh"

\* C9: inside VS Code the loaded page has posted exactly one refresh
\* request, as its first message, so before any loadView message, and it
\* posts nothing before it has loaded; outside VS Code nothing is ever
\* posted and the DOMContentLoaded listener ends normally with the page
\* elements bound.
C9_RefreshFirstAndOnce ==
  /\ hasVsCodeApi /\ domLoaded =>
       /\ outbox # << >>
       /\ outbox[1] = [command |-> "refresh"]
       /\ Len(SelectSeq(outbox, IsRefreshMessage)) = 1
  /\ ~domLoaded => outbox = << >>
  /\ \A i \in 1..Len(outbox) :
       outbox[i].command = "loadView" =>
         \E j \in 1..(i - 1) : outbox[j].command = "refresh"
  /\ ~hasVsCodeApi => outbox = << >> /\ vscode = "undefined"
  /\ handler = "DOMContentLoaded" => ~uncaught /\ elements

\* C9 witness: inside VS Code a loadView message has followed the refresh
\* request.
C9_Witness ==
  /\ hasVsCodeApi
  /\ Len(outbox) >= 2
  /\ outbox[1].command = "refresh"
  /\ outbox[2].command = "loadView"

===========================================================================
